---- MODULE Spec2Model ----
(***************************************************************************)
(* The to-do list of src/App.js: the component state (task, tasks,         *)
(* editingTaskId, editingText), its event handlers, and the two effects    *)
(* that mirror the list to the AsyncStorage slot 'tasks'.                  *)
(*                                                                         *)
(* Strings are sequences of one-character strings.  A step of the model is *)
(* one event of the JavaScript event loop: a user event with the render    *)
(* and the effects that follow it, or the completion of a storage request. *)
(***************************************************************************)
EXTENDS Naturals, Sequences, FiniteSets

\* ------------------------------------------------------------------ bounds
\* The length of the runs explored, in steps.
MaxSteps == 6

\* The length of the runs explored when the handlers are also called with
\* arguments the screen does not offer (SpecDirect), in steps.
MaxCalls == 5

\* ------------------------------------------------------------------ inputs
\* What the user can have in a text field: empty, blank, and text with
\* leading and trailing whitespace.
Texts == { <<>>, <<" ">>, <<" ", "a", " ">> }

WhiteSpace == { " " }

VARIABLES
  task,           \* useState(''): the new-task input field
  tasks,          \* useState([]): the in-memory list
  editingTaskId,  \* useState(null): <<>> is null, <<id>> an id
  editingText,    \* useState('')
  now,            \* the last reading of the clock (Date.now())
  slot,           \* AsyncStorage key 'tasks': <<>> absent, <<s>> holding s
  writes,         \* setItem requests in flight, in order of issue
  load,           \* loadTasks: "pending", "read", "done" or "failed"
  loadVal,        \* what the getItem read (meaningful once load = "read")
  steps,          \* the number of steps taken (see MaxSteps)
  bootSlot,       \* history: the slot's value when this process started
  mutated,        \* history: a handler has called setTasks in this process
  failed,         \* history: a write has failed
  outcome         \* history: how the last handler call with an argument the
                  \* screen does not offer ended: "none", "returned", "threw"

vars == << task, tasks, editingTaskId, editingText, now, slot, writes, load,
           loadVal, steps, bootSlot, mutated, failed, outcome >>

\* ------------------------------------------------------- pure functions
RECURSIVE TrimStart(_)
TrimStart(s) ==
  IF s # <<>> /\ Head(s) \in WhiteSpace THEN TrimStart(Tail(s)) ELSE s

RECURSIVE TrimEnd(_)
TrimEnd(s) ==
  IF s # <<>> /\ s[Len(s)] \in WhiteSpace
    THEN TrimEnd(SubSeq(s, 1, Len(s) - 1))
    ELSE s

\* String.prototype.trim
Trim(s) == TrimEnd(TrimStart(s))

Digits == << "0", "1", "2", "3", "4", "5", "6", "7", "8", "9" >>

\* Number.prototype.toString, base ten
RECURSIVE ToString(_)
ToString(n) ==
  IF n < 10 THEN << Digits[n + 1] >>
            ELSE Append(ToString(n \div 10), Digits[(n % 10) + 1])

\* JSON text is a sequence of tokens: "[", then for each task "{", the id,
\* the text, "true" or "false", "}", and "]".
BoolToJson(b) == IF b THEN "true" ELSE "false"

TaskToJson(t) == << "{", t.id, t.text, BoolToJson(t.completed), "}" >>

RECURSIVE TasksToJson(_)
TasksToJson(ts) ==
  IF ts = <<>> THEN <<>> ELSE TaskToJson(Head(ts)) \o TasksToJson(Tail(ts))

\* JSON.stringify(tasks)
Stringify(ts) == << "[" >> \o TasksToJson(ts) \o << "]" >>

\* JSON.parse of a text that Stringify wrote
Parse(s) ==
  [ k \in 1..((Len(s) - 2) \div 5) |->
      [ id        |-> s[5 * (k - 1) + 3],
        text      |-> s[5 * (k - 1) + 4],
        completed |-> (s[5 * (k - 1) + 5] = "true") ] ]

\* if (storedTasks): null and the empty string are falsy
Truthy(item) == item # <<>> /\ item[1] # <<>>

Ids(ts) == { ts[i].id : i \in DOMAIN ts }

\* Array.prototype.filter with (item) => item.id !== taskId
RECURSIVE FilterOut(_, _)
FilterOut(ts, taskId) ==
  IF ts = <<>> THEN <<>>
  ELSE IF Head(ts).id # taskId
    THEN << Head(ts) >> \o FilterOut(Tail(ts), taskId)
    ELSE FilterOut(Tail(ts), taskId)

\* Array.prototype.find with (task) => task.id === taskId, for an id in ts
Find(ts, taskId) ==
  ts[CHOOSE i \in DOMAIN ts :
       ts[i].id = taskId /\ \A j \in 1..(i - 1) : ts[j].id # taskId]

\* ------------------------------------------------------------ the effects
\* A saveTasks that serializes the list of the render before
SaveTasksStale(ts) == writes' = Append(writes, Stringify(tasks))

\* The effect on [tasks]: every setTasks with a new array runs saveTasks with
\* that array; setItem is issued and not awaited by anything else.
SaveTasks(ts) == writes' = Append(writes, Stringify(ts))

\* setTasks(ts) and the render that follows it
SetTasks(ts) == tasks' = ts /\ SaveTasks(ts)

\* Every action is one step of the run.
Step == steps < MaxSteps /\ steps' = steps + 1

\* ------------------------------------------------------------------- Init
\* The state after the first render of a first run: nothing stored, the load
\* effect has issued getItem, the save effect has issued setItem of "[]".
Init ==
  /\ task = <<>>
  /\ tasks = <<>>
  /\ editingTaskId = <<>>
  /\ editingText = <<>>
  /\ now = 0
  /\ slot = <<>>
  /\ writes = << Stringify(<<>>) >>
  /\ load = "pending"
  /\ loadVal = <<>>
  /\ steps = 0
  /\ bootSlot = <<>>
  /\ mutated = FALSE
  /\ failed = FALSE
  /\ outcome = "none"

\* ---------------------------------------------------------------- actions
\* The task addTask builds from the input field and the clock
NewTask(text, time) ==
  [ id |-> ToString(time), text |-> text, completed |-> FALSE ]

\* The test without the trim: if (task)
AcceptsUntrimmed(text) == text # <<>>

\* if (task.trim())
Accepts(text) == Trim(text) # <<>>

\* An addTask that puts the new task in front: [newTask, ...tasks]
AddTaskFirst(text, dt) ==
  /\ Step
  /\ UNCHANGED outcome
  /\ IF Accepts(text)
       THEN /\ now' = now + dt
            /\ SetTasks(<< NewTask(text, now') >> \o tasks)
            /\ task' = <<>>
            /\ mutated' = TRUE
       ELSE /\ task' = text
            /\ UNCHANGED << tasks, writes, mutated, now >>
  /\ UNCHANGED << editingTaskId, editingText, slot, load, loadVal,
                  bootSlot, failed >>

\* The user types text into the input field (onChangeText={setTask}) and
\* presses + (onPress={addTask}).  Only addTask reads the field and the
\* clock, so the typing and the passing of time are taken with the press:
\* dt = 0 is a press within the millisecond of the previous reading of the
\* clock, dt = 1 a later one.
AddTask(text, dt) ==
  /\ Step
  /\ UNCHANGED outcome
  /\ IF Accepts(text)
       THEN /\ now' = now + dt
            /\ SetTasks(Append(tasks, NewTask(text, now')))
            /\ task' = <<>>
            /\ mutated' = TRUE
       ELSE /\ task' = text
            /\ UNCHANGED << tasks, writes, mutated, now >>
  /\ UNCHANGED << editingTaskId, editingText, slot, load, loadVal,
                  bootSlot, failed >>

\* tasks.map of toggleTask
Toggled(ts, taskId) ==
  [ i \in DOMAIN ts |->
      IF ts[i].id = taskId
        THEN [ ts[i] EXCEPT !.completed = ~ts[i].completed ]
        ELSE ts[i] ]

\* The Text that toggles an item is rendered for the items in the list that
\* are not being edited.
ToggleTask(taskId) ==
  /\ taskId \in Ids(tasks)
  /\ editingTaskId # << taskId >>
  /\ Step
  /\ UNCHANGED outcome
  /\ SetTasks(Toggled(tasks, taskId))
  /\ mutated' = TRUE
  /\ UNCHANGED << task, editingTaskId, editingText, now, slot, load, loadVal,
                  bootSlot, failed >>

\* The X button is rendered for every item in the list.
DeleteTask(taskId) ==
  /\ taskId \in Ids(tasks)
  /\ Step
  /\ UNCHANGED outcome
  /\ SetTasks(FilterOut(tasks, taskId))
  /\ mutated' = TRUE
  /\ UNCHANGED << task, editingTaskId, editingText, now, slot, load, loadVal,
                  bootSlot, failed >>

\* An id that no task has: no reading of the clock prints as it.
UnknownId == << "x" >>

\* editTask(taskId), for any argument.  When find returns undefined,
\* setEditingTaskId(taskId) has been called and task.text throws a TypeError:
\* the update already queued is applied, setEditingText is not reached.
EditTaskCall(taskId) ==
  /\ Step
  /\ editingTaskId' = << taskId >>
  /\ IF taskId \in Ids(tasks)
       THEN /\ editingText' = Find(tasks, taskId).text
            /\ UNCHANGED outcome
       ELSE /\ UNCHANGED editingText
            /\ outcome' = "threw"
  /\ UNCHANGED << task, tasks, now, slot, writes, load, loadVal, bootSlot,
                  mutated, failed >>

\* The Edit button is rendered for every item in the list.
EditTask(taskId) == taskId \in Ids(tasks) /\ EditTaskCall(taskId)

\* The editing TextInput is rendered when an item has the id editingTaskId.
EditorShown == \E i \in DOMAIN tasks : editingTaskId = << tasks[i].id >>

\* onChangeText={setEditingText}
ChangeEditingText(s) ==
  /\ Step
  /\ UNCHANGED outcome
  /\ EditorShown
  /\ editingText' = s
  /\ UNCHANGED << task, tasks, editingTaskId, now, slot, writes, load,
                  loadVal, bootSlot, mutated, failed >>

\* A map that rewrites every task, whatever editingTaskId is
UpdatedAll(ts, editing, text) ==
  [ i \in DOMAIN ts |->
      [ ts[i] EXCEPT !.text = text, !.completed = TRUE ] ]

\* tasks.map of updateTask
Updated(ts, editing, text) ==
  [ i \in DOMAIN ts |->
      IF editing = << ts[i].id >>
        THEN [ ts[i] EXCEPT !.text = text, !.completed = TRUE ]
        ELSE ts[i] ]

\* updateTask(), in any state
UpdateTaskCall ==
  /\ Step
  /\ SetTasks(Updated(tasks, editingTaskId, editingText))
  /\ editingTaskId' = <<>>
  /\ editingText' = <<>>
  /\ mutated' = TRUE
  /\ outcome' = IF EditorShown THEN outcome ELSE "returned"
  /\ UNCHANGED << task, now, slot, load, loadVal, bootSlot, failed >>

\* onSubmitEditing={updateTask}: the editing TextInput is on the screen
UpdateTask == EditorShown /\ UpdateTaskCall

\* AsyncStorage.getItem reads the slot at some moment after it was issued.
LoadRead ==
  /\ Step
  /\ UNCHANGED outcome
  /\ load = "pending"
  /\ load' = "read"
  /\ loadVal' = slot
  /\ UNCHANGED << task, tasks, editingTaskId, editingText, now, slot, writes,
                  bootSlot, mutated, failed >>

\* The continuation of loadTasks after the await.
LoadDone ==
  /\ Step
  /\ UNCHANGED outcome
  /\ load = "read"
  /\ load' = "done"
  /\ IF Truthy(loadVal)
       THEN SetTasks(Parse(loadVal[1]))
       ELSE UNCHANGED << tasks, writes >>
  /\ UNCHANGED << task, editingTaskId, editingText, now, slot, loadVal,
                  bootSlot, mutated, failed >>

\* getItem rejects: the catch logs and the list stays as it is.
LoadFail ==
  /\ Step
  /\ UNCHANGED outcome
  /\ load = "pending"
  /\ load' = "failed"
  /\ UNCHANGED << task, tasks, editingTaskId, editingText, now, slot, writes,
                  loadVal, bootSlot, mutated, failed >>

Remove(seq, i) == SubSeq(seq, 1, i - 1) \o SubSeq(seq, i + 1, Len(seq))

\* A storage queue that completes the requests in the order of issue
CompletableInOrder == IF writes = <<>> THEN {} ELSE { 1 }

\* The write requests that may complete next: any of those in flight, since
\* saveTasks neither awaits nor chains on the request before it.
Completable == DOMAIN writes

\* A setItem resolves: the slot takes its payload.
WriteDone(i) ==
  /\ Step
  /\ UNCHANGED outcome
  /\ i \in Completable
  /\ slot' = << writes[i] >>
  /\ writes' = Remove(writes, i)
  /\ UNCHANGED << task, tasks, editingTaskId, editingText, now, load, loadVal,
                  bootSlot, mutated, failed >>

\* A catch that issues the rejected setItem again
WriteFailRetry(i) ==
  /\ Step
  /\ UNCHANGED outcome
  /\ i \in DOMAIN writes
  /\ writes' = Append(Remove(writes, i), writes[i])
  /\ failed' = TRUE
  /\ UNCHANGED << task, tasks, editingTaskId, editingText, now, slot, load,
                  loadVal, bootSlot, mutated >>

\* A setItem rejects: the catch logs, the slot stays as it is.
WriteFail(i) ==
  /\ Step
  /\ UNCHANGED outcome
  /\ i \in DOMAIN writes
  /\ writes' = Remove(writes, i)
  /\ failed' = TRUE
  /\ UNCHANGED << task, tasks, editingTaskId, editingText, now, slot, load,
                  loadVal, bootSlot, mutated >>

\* The process ends and the app is started again, later: the component state
\* is the initial one, the requests of the old process are gone, the slot
\* keeps its value, and both mount effects have run.
Restart ==
  /\ Step
  /\ UNCHANGED outcome
  /\ now' = now + 1
  /\ task' = <<>>
  /\ tasks' = <<>>
  /\ editingTaskId' = <<>>
  /\ editingText' = <<>>
  /\ writes' = << Stringify(<<>>) >>
  /\ load' = "pending"
  /\ loadVal' = <<>>
  /\ bootSlot' = slot
  /\ mutated' = FALSE
  /\ UNCHANGED << slot, failed >>

Next ==
  \/ \E s \in Texts, dt \in 0..1 : AddTask(s, dt)
  \/ \E i \in DOMAIN tasks : ToggleTask(tasks[i].id)
  \/ \E i \in DOMAIN tasks : DeleteTask(tasks[i].id)
  \/ \E i \in DOMAIN tasks : EditTask(tasks[i].id)
  \/ \E s \in Texts : ChangeEditingText(s)
  \/ UpdateTask
  \/ LoadRead
  \/ LoadDone
  \/ LoadFail
  \/ \E i \in DOMAIN writes : WriteDone(i)
  \/ \E i \in DOMAIN writes : WriteFail(i)
  \/ Restart

Spec == Init /\ [][Next]_vars

\* The steps of the screen, in runs of at most MaxCalls steps
ScreenStep == steps < MaxCalls /\ Next

\* editTask called with an id that no task has
EditUnknown == steps < MaxCalls /\ EditTaskCall(UnknownId)

\* updateTask called while no edit is in progress
UpdateIdle == steps < MaxCalls /\ editingTaskId = <<>> /\ UpdateTaskCall

\* The handlers are also called with the arguments the screen does not
\* offer.
NextDirect ==
  \/ ScreenStep
  \/ EditUnknown
  \/ UpdateIdle

SpecDirect == Init /\ [][NextDirect]_vars

\* ------------------------------------------------------------------ claims
\* Notions the claims are stated in.
Blank(s) == \A i \in DOMAIN s : s[i] \in WhiteSpace

NoOuterSpace(s) ==
  s = <<>> \/ (s[1] \notin WhiteSpace /\ s[Len(s)] \notin WhiteSpace)

\* C1: in every reachable state the ids of the tasks in the list are
\* pairwise distinct.
C1_IdsDistinct ==
  \A i, j \in DOMAIN tasks : i # j => tasks[i].id # tasks[j].id

\* C2: no handler changes the list while the startup load is still pending:
\* whenever a handler of this process has called setTasks, the load has
\* already completed.
C2_LoadBeforeMutation == mutated => load \in { "done", "failed" }

\* C3: when the process started with the slot holding a written list L, then
\* once the load has completed, and with no user mutation since the start,
\* the in-memory list is L and the slot still holds L.
C3_RoundTrip ==
  (load = "done" /\ ~mutated /\ Truthy(bootSlot))
    => (tasks = Parse(bootSlot[1]) /\ slot = bootSlot)

\* C4: writes are not serialized: whichever write is in flight, it may be
\* the next to complete, and the slot then holds its payload.
C4_AnyWriteMayCompleteNext ==
  \A i \in DOMAIN writes :
    steps < MaxSteps => ENABLED (WriteDone(i) /\ slot' = << writes[i] >>)

\* C4, the state the claim says is reachable: no write in flight, no write
\* has failed, and the slot holds an older, non-empty list that is not the
\* in-memory list.
C4_StaleSlotReached ==
  /\ writes = <<>>
  /\ ~failed
  /\ bootSlot = <<>>
  /\ Truthy(slot)
  /\ Parse(slot[1]) # <<>>
  /\ Parse(slot[1]) # tasks

\* C5: commitEdit while an existing task is edited sets that one task's text
\* to editingText and its completed flag to true, leaves every other task
\* and the order as they were, and clears the editing state.
C5_CommitEdit ==
  [][ UpdateTask =>
        /\ \E k \in DOMAIN tasks :
             /\ editingTaskId = << tasks[k].id >>
             /\ tasks' = [ tasks EXCEPT ![k] =
                             [ id |-> tasks[k].id, text |-> editingText,
                               completed |-> TRUE ] ]
        /\ editingTaskId' = <<>>
        /\ editingText' = <<>> ]_vars

\* C6: add with a text that is empty or only whitespace leaves the list as
\* it was.
C6_BlankAddNoChange ==
  [][ \A s \in Texts, dt \in 0..1 :
        (AddTask(s, dt) /\ Blank(s)) => tasks' = tasks ]_vars

\* C6, its case: a blank, non-empty text was submitted to a non-empty list.
C6_BlankAddReached == Blank(task) /\ task # <<>> /\ tasks # <<>>

\* C7: add with a non-blank text yields the previous list followed by one
\* new task, not completed, whose id is not in the previous list.
C7_AddAppendsFresh ==
  [][ \A s \in Texts, dt \in 0..1 :
        (AddTask(s, dt) /\ ~Blank(s)) =>
          /\ Len(tasks') = Len(tasks) + 1
          /\ SubSeq(tasks', 1, Len(tasks)) = tasks
          /\ tasks'[Len(tasks')].completed = FALSE
          /\ tasks'[Len(tasks')].id \notin Ids(tasks) ]_vars

\* C8: the text add stores is the submitted text without its leading and
\* trailing whitespace.
C8_StoredTextTrimmed ==
  [][ \A s \in Texts, dt \in 0..1 :
        (AddTask(s, dt) /\ ~Blank(s)) =>
          /\ Len(tasks') = Len(tasks) + 1
          /\ NoOuterSpace(tasks'[Len(tasks')].text)
          /\ tasks'[Len(tasks')].text = Trim(s) ]_vars

\* C9: in every reachable state every task has a non-empty text.
C9_TextNonEmpty == \A i \in DOMAIN tasks : tasks[i].text # <<>>

\* C10: delete(id) removes exactly the one task with that id and leaves the
\* others as they were, in their order.
C10_DeleteRemovesOne ==
  [][ \A i \in DOMAIN tasks :
        DeleteTask(tasks[i].id) =>
          \E k \in DOMAIN tasks :
            /\ tasks[k].id = tasks[i].id
            /\ tasks' = Remove(tasks, k) ]_vars

\* C11: toggle(id) negates the completed flag of the one task with that id
\* and changes nothing else, and a second toggle(id) restores the list.
C11_ToggleFlipsOne ==
  [][ \A i \in DOMAIN tasks :
        ToggleTask(tasks[i].id) =>
          /\ \E k \in DOMAIN tasks :
               /\ tasks[k].id = tasks[i].id
               /\ tasks' = [ tasks EXCEPT ![k].completed = ~tasks[k].completed ]
          /\ Toggled(tasks', tasks[i].id) = tasks ]_vars

\* C12: beginEdit(B) while A is being edited leaves the list as it was, sets
\* editingTaskId to B and editingText to B's text; a following commitEdit
\* changes no task but one; at most one task is in edit mode at any time.
C12_OneEditAtATime ==
  [][ /\ \A i \in DOMAIN tasks :
           EditTask(tasks[i].id) =>
             /\ tasks' = tasks
             /\ editingTaskId' = << tasks[i].id >>
             /\ editingText' = tasks[i].text
      /\ UpdateTask =>
           \E k \in DOMAIN tasks :
             /\ editingTaskId = << tasks[k].id >>
             /\ \A j \in DOMAIN tasks : j # k => tasks'[j] = tasks[j]
      /\ Cardinality({ i \in DOMAIN tasks' :
                         editingTaskId' = << tasks'[i].id >> }) <= 1 ]_vars

\* C13: beginEdit(id) with an id that no task has raises no error and leaves
\* editingTaskId, editingText and the list as they were.
C13_EditUnknownNoOp ==
  [][ EditTaskCall(UnknownId) =>
        /\ outcome' # "threw"
        /\ editingTaskId' = editingTaskId
        /\ editingText' = editingText
        /\ tasks' = tasks ]_vars

Mutation ==
  \/ \E s \in Texts, dt \in 0..1 : AddTask(s, dt) /\ ~Blank(s)
  \/ \E i \in DOMAIN tasks : ToggleTask(tasks[i].id)
  \/ \E i \in DOMAIN tasks : DeleteTask(tasks[i].id)
  \/ UpdateTask

\* C15: every mutating operation issues one write whose payload is the whole
\* list as it is right after the operation, and a completed write replaces
\* the slot's value by its payload.
C15_WriteAfterEveryMutation ==
  [][ /\ Mutation =>
           /\ Len(writes') = Len(writes) + 1
           /\ SubSeq(writes', 1, Len(writes)) = writes
           /\ Parse(writes'[Len(writes')]) = tasks'
      /\ \A i \in DOMAIN writes :
           WriteDone(i) => (slot' = << writes[i] >> /\ Len(slot') = 1) ]_vars

\* C15, its case: the write of a mutation has completed and the slot holds
\* the non-empty list in memory.
C15_MutationWritten ==
  /\ mutated
  /\ tasks # <<>>
  /\ Truthy(slot)
  /\ Parse(slot[1]) = tasks

\* C16: commitEdit while no edit is in progress leaves the list and the
\* editing state as they were.
C16_CommitIdleNoOp ==
  [][ (UpdateTaskCall /\ editingTaskId = <<>>) =>
        /\ tasks' = tasks
        /\ editingTaskId' = editingTaskId
        /\ editingText' = editingText ]_vars

\* C16, its case: updateTask has returned from a call made while no edit
\* was in progress and the list was not empty.
C16_CommitIdleReached ==
  outcome = "returned" /\ editingTaskId = <<>> /\ tasks # <<>>

\* A step of a handler of the screen
HandlerStep ==
  \/ \E s \in Texts, dt \in 0..1 : AddTask(s, dt)
  \/ \E i \in DOMAIN tasks : ToggleTask(tasks[i].id)
  \/ \E i \in DOMAIN tasks : DeleteTask(tasks[i].id)
  \/ \E i \in DOMAIN tasks : EditTask(tasks[i].id)
  \/ UpdateTask

IdSeq(ts) == [ i \in DOMAIN ts |-> ts[i].id ]

\* a is b with some of its elements left out
RECURSIVE IsSubseq(_, _)
IsSubseq(a, b) ==
  IF a = <<>> THEN TRUE
  ELSE IF b = <<>> THEN FALSE
  ELSE IF Head(a) = Head(b) THEN IsSubseq(Tail(a), Tail(b))
  ELSE IsSubseq(a, Tail(b))

\* The clock reading an id was printed from
RECURSIVE FromString(_)
FromString(d) ==
  IF d = <<>> THEN 0
  ELSE 10 * FromString(SubSeq(d, 1, Len(d) - 1))
         + (CHOOSE n \in 0..9 : Digits[n + 1] = d[Len(d)])

\* C17: no handler reorders tasks: after a step of add, toggle, delete,
\* beginEdit or commitEdit the list is the tasks kept, in the order they had,
\* followed by at most one new task; and the list is in order of creation.
C17_NoReordering ==
  [][ /\ HandlerStep =>
           \E n \in 0..Len(tasks') :
             /\ Len(tasks') - n <= 1
             /\ IsSubseq(IdSeq(SubSeq(tasks', 1, n)), IdSeq(tasks))
      /\ \A i \in 1..(Len(tasks') - 1) :
           FromString(tasks'[i].id) <= FromString(tasks'[i + 1].id) ]_vars

\* C17, its case: two tasks created at different times, the first of them
\* changed since.
C17_TwoTasksReached ==
  /\ Len(tasks) = 2
  /\ tasks[1].id # tasks[2].id
  /\ tasks[1].completed

\* the list a process reads from a slot item: nothing stored reads as the
\* empty list
ListOf(item) == IF Truthy(item) THEN Parse(item[1]) ELSE <<>>

\* C18: starting the process does not alter persisted data: until the first
\* user mutation of this process, every write in flight carries the list
\* the slot held when the process started.
C18_StartupWritesKeepSlot ==
  ~mutated => \A i \in DOMAIN writes : Parse(writes[i]) = ListOf(bootSlot)

\* C19: editingTaskId is either unset or the id of a task of the in-memory
\* list.
C19_EditingIdInList == editingTaskId = <<>> \/ EditorShown

====
